---------------------------- MODULE Spec2Model ----------------------------
(***************************************************************************)
(* egui_animate: the two-phase (out, then in) animation timing engine      *)
(* (AnimationState in src/state.rs), the per-frame controller `animate`,   *)
(* the read-only query `run_state`, and the egui memory they keep their    *)
(* per-id entries in (src/mem.rs).                                         *)
(*                                                                         *)
(* Time is counted in whole ticks.  Every time and duration of the model   *)
(* is a small natural number, which f32 and f64 both represent exactly, so *)
(* the `as f32` / `as f64` casts of the source and the f64 additions and   *)
(* subtractions are exact on the model's domain.  A normal (an f32         *)
(* quotient elapsed / duration) is kept as the reduced fraction <<n, d>>.  *)
(* An Option is a sequence of length at most one: <<>> is None and <<x>>   *)
(* is Some(x).                                                             *)
(***************************************************************************)
EXTENDS Integers, Sequences, FiniteSets, TLC

\* ------------------------------------------------------------- bounds
MaxTime == 5
MaxDur == 2
MaxValue == 2
\* EngineSpec evaluates the timing engine alone, on a wider range.
EngMaxTime == 8
EngMaxDur == 4

Ids == {"x", "y"}
Times == 0..MaxTime
Durations == 0..MaxDur
Values == 0..MaxValue
AnimFns == {"fade", "slide"}

\* -------------------------------------------------------- Option, f32
NoneOpt == <<>>
Some(x) == <<x>>

Max(a, b) == IF a >= b THEN a ELSE b

RECURSIVE Gcd(_, _)
Gcd(a, b) == IF b = 0 THEN a ELSE Gcd(b, a % b)

Abs(a) == IF a >= 0 THEN a ELSE -a

\* f32 division elapsed / duration: the quotient as a reduced fraction.
\* Division by zero does not trap in f32: 0/0 is NaN, here <<0, 0>>, and
\* e/0 is an infinity, here <<1, 0>> or <<-1, 0>>.
Div(e, d) ==
    IF d = 0
    THEN <<IF e > 0 THEN 1 ELSE IF e < 0 THEN -1 ELSE 0, 0>>
    ELSE LET g == Gcd(d, Abs(e)) IN <<e \div g, d \div g>>

\* --------------------------------------------------- Animation (data)
AnimationSegment == [duration : Durations, anim_fn : AnimFns]
Animation == [out_seg : AnimationSegment, in_seg : AnimationSegment]

\* ----------------------------------------------------------- RunState
OutSeg(n) == [tag |-> "OutSeg", normal |-> n]
InSeg(n) == [tag |-> "InSeg", normal |-> n]
RunStateNone == [tag |-> "None", normal |-> <<0, 1>>]

is_running(rs) == rs.tag \in {"OutSeg", "InSeg"}

\* ----------------------------------------------------- AnimationState
AnimationState_new(start_time, current_time, animation) ==
    [start_time |-> start_time, current_time |-> current_time,
     animation |-> animation]

out_dur(self) == self.animation.out_seg.duration

out_start(self) == self.start_time

out_end(self) == out_start(self) + out_dur(self)

\* Mutant: the operands of the subtraction swapped.
out_elapsed_swapped(self) ==
    LET out_elapsed_ == Max(out_start(self) - self.current_time, 0)
    IN IF out_elapsed_ < out_dur(self) THEN Some(out_elapsed_) ELSE NoneOpt

\* Mutant: the end of the out segment taken as inclusive.
out_elapsed_inclusive(self) ==
    LET out_elapsed_ == Max(self.current_time - out_start(self), 0)
    IN IF out_elapsed_ <= out_dur(self) THEN Some(out_elapsed_) ELSE NoneOpt

\* Mutant: the elapsed time not clamped at zero.
out_elapsed_unclamped(self) ==
    LET out_elapsed_ == self.current_time - out_start(self)
    IN IF out_elapsed_ < out_dur(self) THEN Some(out_elapsed_) ELSE NoneOpt

out_elapsed(self) ==
    LET out_elapsed_ == Max(self.current_time - out_start(self), 0)
    IN IF out_elapsed_ < out_dur(self) THEN Some(out_elapsed_) ELSE NoneOpt

out_elapsed_normal(self) ==
    IF out_elapsed(self) # NoneOpt
    THEN Some(Div(out_elapsed(self)[1], out_dur(self)))
    ELSE NoneOpt

\* Mutant: the in segment's duration read from the out segment.
in_dur_from_out_seg(self) == self.animation.out_seg.duration

in_dur(self) == self.animation.in_seg.duration

\* Mutant: the in segment starts with the out segment.
in_start_at_out_start(self) == out_start(self)

in_start(self) == out_end(self)

in_end(self) == in_start(self) + in_dur(self)

\* Mutant: the end of the in segment taken as inclusive.
in_elapsed_inclusive(self) ==
    LET in_elapsed_ == Max(self.current_time - in_start(self), 0)
    IN IF in_elapsed_ <= in_dur(self) THEN Some(in_elapsed_) ELSE NoneOpt

\* Mutant: no in-segment elapsed time while the out segment is running.
in_elapsed_gated(self) ==
    LET in_elapsed_ == Max(self.current_time - in_start(self), 0)
    IN IF out_elapsed(self) = NoneOpt /\ in_elapsed_ < in_dur(self)
       THEN Some(in_elapsed_)
       ELSE NoneOpt

in_elapsed(self) ==
    LET in_elapsed_ == Max(self.current_time - in_start(self), 0)
    IN IF in_elapsed_ < in_dur(self) THEN Some(in_elapsed_) ELSE NoneOpt

in_elapsed_normal(self) ==
    IF in_elapsed(self) # NoneOpt
    THEN Some(Div(in_elapsed(self)[1], in_dur(self)))
    ELSE NoneOpt

\* Mutant: the in segment tried before the out segment.
run_state_in_first(self) ==
    IF in_elapsed_normal(self) # NoneOpt
    THEN InSeg(in_elapsed_normal(self)[1])
    ELSE IF out_elapsed_normal(self) # NoneOpt
         THEN OutSeg(out_elapsed_normal(self)[1])
         ELSE RunStateNone

AnimationState_run_state(self) ==
    IF out_elapsed_normal(self) # NoneOpt
    THEN OutSeg(out_elapsed_normal(self)[1])
    ELSE IF in_elapsed_normal(self) # NoneOpt
         THEN InSeg(in_elapsed_normal(self)[1])
         ELSE RunStateNone


\* ------------------------------------------------------------- state
VARIABLES
    time,         \* the host clock, input.time, of the current frame
    start_time,   \* memory.data temp entries id.with("start_time"), per id
    start_value,  \* memory.data temp entries id.with("start_value"), per id
    to_global,    \* memory.to_global: whether the id's layer has a transform
    prev,         \* per id: path and value of its latest animate call
    called,       \* the ids animate was called for in the current frame
    last,         \* the latest call: its inputs, what it found, what it did
    eng           \* the timing engine evaluated on its own (EngineSpec)

vars == <<time, start_time, start_value, to_global, prev, called, last, eng>>

\* The egui context a call works on: the memory, the clock, and what the
\* call has done so far (repaint requested, the AnimationState it built,
\* the effect / content / cleanup calls in order).
Ui ==
    [input_time |-> time, start_time |-> start_time,
     start_value |-> start_value, to_global |-> to_global,
     repaint |-> FALSE, anim_state |-> NoneOpt, events |-> <<>>]

Event(ev, seg, normal, value) ==
    [ev |-> ev, seg |-> seg, normal |-> normal, value |-> value]

Emit(ui, e) == [ui EXCEPT !.events = Append(@, e)]

\* ------------------------------------------------------------ mem.rs
\* Mutant: the current time inserted over an entry that exists.
insert_start_time(ui, id, current_time) ==
    [ui |-> [ui EXCEPT !.start_time[id] = Some(current_time)],
     ret |-> current_time]

get_or_insert_start_time(ui, id, current_time) ==
    IF ui.start_time[id] # NoneOpt
    THEN [ui |-> ui, ret |-> ui.start_time[id][1]]
    ELSE [ui |-> [ui EXCEPT !.start_time[id] = Some(current_time)],
          ret |-> current_time]

get_start_time(ui, id) == [ui |-> ui, ret |-> ui.start_time[id]]

\* Mutant: the start time entry left in place.
clear_start_time_keeps_entry(ui, id) ==
    Emit(ui, Event("clear_start_time", "none", <<0, 1>>, 0))

clear_start_time(ui, id) ==
    Emit([ui EXCEPT !.start_time[id] = NoneOpt],
         Event("clear_start_time", "none", <<0, 1>>, 0))

\* Mutant: a plain get that falls back to the given value, nothing inserted.
get_start_value_no_insert(ui, id, current_value) ==
    IF ui.start_value[id] # NoneOpt
    THEN [ui |-> ui, ret |-> ui.start_value[id][1]]
    ELSE [ui |-> ui, ret |-> current_value]

\* Mutant: the value compared with is the one the id's previous call was
\* given, remembered outside the memory.
get_start_value_outside_store(ui, id, current_value) ==
    IF ui.start_value[id] # NoneOpt
    THEN [ui |-> ui, ret |-> prev[id].value]
    ELSE [ui |-> [ui EXCEPT !.start_value[id] = Some(current_value)],
          ret |-> current_value]

\* Mutant: T::default() inserted instead of the current value.
get_or_insert_default_value(ui, id, current_value) ==
    IF ui.start_value[id] # NoneOpt
    THEN [ui |-> ui, ret |-> ui.start_value[id][1]]
    ELSE [ui |-> [ui EXCEPT !.start_value[id] = Some(0)], ret |-> 0]

get_or_insert_start_value(ui, id, current_value) ==
    IF ui.start_value[id] # NoneOpt
    THEN [ui |-> ui, ret |-> ui.start_value[id][1]]
    ELSE [ui |-> [ui EXCEPT !.start_value[id] = Some(current_value)],
          ret |-> current_value]

clear_start_value(ui, id) ==
    Emit([ui EXCEPT !.start_value[id] = NoneOpt],
         Event("clear_start_value", "none", <<0, 1>>, 0))

\* AnimationSegment::animation_layer: the layer an id's animation draws on.
animation_layer(ui, id) == id

\* Mutant: the transform of every layer removed.
clear_every_layer(ui, id) ==
    Emit([ui EXCEPT !.to_global = [l \in DOMAIN @ |-> FALSE]],
         Event("clear_animation_layer", "none", <<0, 1>>, 0))

clear_animation_layer(ui, id) ==
    LET layer_id == animation_layer(ui, id)
    IN Emit([ui EXCEPT !.to_global[layer_id] = FALSE],
            Event("clear_animation_layer", "none", <<0, 1>>, 0))

\* ------------------------------------------------- callbacks, anim.rs
\* The caller's content closure, called with the value to show; `scope`
\* is the segment whose effect it is drawn under ("none": no effect).
add_contents(ui, value, scope) ==
    Emit(ui, Event("content", scope, <<0, 1>>, value))

\* A segment's effect: fade sets the opacity of the scoped ui, slide sets
\* a transform on the ui's layer.
anim_fn(ui, id, segment, seg, normal) ==
    LET done == Emit(ui, Event("effect", seg, normal, 0))
    IN IF segment.anim_fn = "slide"
       THEN [done EXCEPT !.to_global[animation_layer(ui, id)] = TRUE]
       ELSE done

\* AnimationSegment::animate: the effect at `normal`, then the content
\* inside the effect's scope.
AnimationSegment_animate(segment, ui, id, seg, normal, value) ==
    add_contents(anim_fn(ui, id, segment, seg, normal), value, seg)

request_repaint(ui) == [ui EXCEPT !.repaint = TRUE]

\* ------------------------------------------------- state.rs: animate
animate_out(self, ui, id, normal, value) ==
    AnimationSegment_animate(self.animation.out_seg, ui, id, "out", normal, value)

animate_in(self, ui, id, normal, value) ==
    AnimationSegment_animate(self.animation.in_seg, ui, id, "in", normal, value)

\* Mutant: the out branch stores the current value as the start value.
animate_out_refreshes_value(self, ui, id, start_value_, current_value) ==
    LET rs == AnimationState_run_state(self)
    IN CASE rs.tag = "OutSeg" ->
              animate_out(self,
                          [ui EXCEPT !.start_value[id] = Some(current_value)],
                          id, rs.normal, start_value_)
         [] rs.tag = "InSeg" ->
              animate_in(self, clear_animation_layer(ui, id), id, rs.normal,
                         current_value)
         [] OTHER ->
              add_contents(
                  clear_animation_layer(
                      clear_start_time(clear_start_value(ui, id), id), id),
                  current_value, "none")

\* Mutant: the None branch forgets clear_start_time.
animate_keeps_start_time(self, ui, id, start_value_, current_value) ==
    LET rs == AnimationState_run_state(self)
    IN CASE rs.tag = "OutSeg" ->
              animate_out(self, ui, id, rs.normal, start_value_)
         [] rs.tag = "InSeg" ->
              animate_in(self, clear_animation_layer(ui, id), id, rs.normal,
                         current_value)
         [] OTHER ->
              add_contents(
                  clear_animation_layer(clear_start_value(ui, id), id),
                  current_value, "none")

\* Mutant: the out branch shows the current value.
animate_out_shows_current(self, ui, id, start_value_, current_value) ==
    LET rs == AnimationState_run_state(self)
    IN CASE rs.tag = "OutSeg" ->
              animate_out(self, ui, id, rs.normal, current_value)
         [] rs.tag = "InSeg" ->
              animate_in(self, clear_animation_layer(ui, id), id, rs.normal,
                         current_value)
         [] OTHER ->
              add_contents(
                  clear_animation_layer(
                      clear_start_time(clear_start_value(ui, id), id), id),
                  current_value, "none")

\* Mutant: the in branch does not clear the layer first.
animate_in_keeps_layer(self, ui, id, start_value_, current_value) ==
    LET rs == AnimationState_run_state(self)
    IN CASE rs.tag = "OutSeg" ->
              animate_out(self, ui, id, rs.normal, start_value_)
         [] rs.tag = "InSeg" ->
              animate_in(self, ui, id, rs.normal, current_value)
         [] OTHER ->
              add_contents(
                  clear_animation_layer(
                      clear_start_time(clear_start_value(ui, id), id), id),
                  current_value, "none")

\* Mutant: the None branch cleans up and renders nothing.
animate_none_skips_contents(self, ui, id, start_value_, current_value) ==
    LET rs == AnimationState_run_state(self)
    IN CASE rs.tag = "OutSeg" ->
              animate_out(self, ui, id, rs.normal, start_value_)
         [] rs.tag = "InSeg" ->
              animate_in(self, clear_animation_layer(ui, id), id, rs.normal,
                         current_value)
         [] OTHER ->
              clear_animation_layer(
                  clear_start_time(clear_start_value(ui, id), id), id)

AnimationState_animate(self, ui, id, start_value_, current_value) ==
    LET rs == AnimationState_run_state(self)
    IN CASE rs.tag = "OutSeg" ->
              animate_out(self, ui, id, rs.normal, start_value_)
         [] rs.tag = "InSeg" ->
              animate_in(self, clear_animation_layer(ui, id), id, rs.normal,
                         current_value)
         [] OTHER ->
              add_contents(
                  clear_animation_layer(
                      clear_start_time(clear_start_value(ui, id), id), id),
                  current_value, "none")

\* Mutant: no repaint requested.
animate_no_repaint(ui, id, value, animation) ==
    LET current_time == ui.input_time
        current_value == value
        got == get_or_insert_start_value(ui, id, current_value)
        start_value_ == got.ret
    IN IF start_value_ = current_value
       THEN add_contents(got.ui, current_value, "none")
       ELSE LET st == get_or_insert_start_time(got.ui, id, current_time)
                animation_ ==
                    AnimationState_new(st.ret, current_time, animation)
                ui_ == [st.ui EXCEPT !.anim_state = Some(animation_)]
            IN AnimationState_animate(animation_, ui_, id, start_value_,
                                      current_value)

\* Mutant: the two arms of the match swapped.
animate_inverted_match(ui, id, value, animation) ==
    LET current_time == ui.input_time
        current_value == value
        got == get_or_insert_start_value(ui, id, current_value)
        start_value_ == got.ret
    IN IF start_value_ # current_value
       THEN add_contents(got.ui, current_value, "none")
       ELSE LET st == get_or_insert_start_time(got.ui, id, current_time)
                animation_ ==
                    AnimationState_new(st.ret, current_time, animation)
                ui_ == request_repaint(
                           [st.ui EXCEPT !.anim_state = Some(animation_)])
            IN AnimationState_animate(animation_, ui_, id, start_value_,
                                      current_value)

animate(ui, id, value, animation) ==
    LET current_time == ui.input_time
        current_value == value
        got == get_or_insert_start_value(ui, id, current_value)
        start_value_ == got.ret
    IN IF start_value_ = current_value
       THEN add_contents(got.ui, current_value, "none")
       ELSE LET st == get_or_insert_start_time(got.ui, id, current_time)
                animation_ ==
                    AnimationState_new(st.ret, current_time, animation)
                ui_ == request_repaint(
                           [st.ui EXCEPT !.anim_state = Some(animation_)])
            IN AnimationState_animate(animation_, ui_, id, start_value_,
                                      current_value)

\* Mutant: the start time read with get_or_insert_start_time.
run_state_inserts(ui, id, animation) ==
    LET st == get_or_insert_start_time(ui, id, ui.input_time)
    IN [ui |-> st.ui,
        ret |-> AnimationState_run_state(
                    AnimationState_new(st.ret, st.ui.input_time, animation))]

\* Mutant: the engine evaluated at the start time, not at the clock reading.
run_state_at_start(ui, id, animation) ==
    LET st == get_start_time(ui, id)
    IN IF st.ret # NoneOpt
       THEN [ui |-> st.ui,
             ret |-> AnimationState_run_state(
                         AnimationState_new(st.ret[1], st.ret[1], animation))]
       ELSE [ui |-> st.ui, ret |-> RunStateNone]

run_state(ui, id, animation) ==
    LET st == get_start_time(ui, id)
    IN IF st.ret # NoneOpt
       THEN [ui |-> st.ui,
             ret |-> AnimationState_run_state(
                         AnimationState_new(st.ret[1], st.ui.input_time,
                                            animation))]
       ELSE [ui |-> st.ui, ret |-> RunStateNone]

\* ------------------------------------------------------------ actions
\* The path an animate call took: "fast", or the tag of its run state.
Path(ui) ==
    IF ui.anim_state = NoneOpt THEN "fast"
    ELSE AnimationState_run_state(ui.anim_state[1]).tag

NoCall ==
    [op |-> "none", id |-> "x", value |-> 0,
     animation |-> [out_seg |-> [duration |-> 0, anim_fn |-> "fade"],
                    in_seg |-> [duration |-> 0, anim_fn |-> "fade"]],
     time |-> 0, pre_time |-> NoneOpt, pre_value |-> NoneOpt,
     pre_layer |-> FALSE, prev |-> [path |-> "fresh", value |-> 0],
     path |-> "none", anim_state |-> NoneOpt, repaint |-> FALSE,
     events |-> <<>>, ret |-> RunStateNone, others_same |-> TRUE]

Call(op, id, value, animation, ui, path, ret) ==
    [op |-> op, id |-> id, value |-> value, animation |-> animation,
     time |-> time, pre_time |-> start_time[id],
     pre_value |-> start_value[id], pre_layer |-> to_global[id],
     prev |-> prev[id], path |-> path, anim_state |-> ui.anim_state,
     repaint |-> ui.repaint, events |-> ui.events, ret |-> ret,
     others_same |-> \A o \in Ids \ {id} :
                        /\ ui.start_time[o] = start_time[o]
                        /\ ui.start_value[o] = start_value[o]
                        /\ ui.to_global[o] = to_global[o]]

EngineIdle ==
    [start_time |-> 0, current_time |-> 0, animation |-> NoCall.animation,
     prev_time |-> 0, prev_rs |-> RunStateNone, rs |-> RunStateNone]

Init ==
    /\ time = 0
    /\ start_time = [i \in Ids |-> NoneOpt]
    /\ start_value = [i \in Ids |-> NoneOpt]
    /\ to_global = [i \in Ids |-> FALSE]
    /\ prev = [i \in Ids |-> [path |-> "fresh", value |-> 0]]
    /\ called = {}
    /\ last = NoCall
    /\ eng = EngineIdle

\* The host starts the next frame: the clock has advanced, and the ui is
\* built again from scratch.
NewFrame ==
    /\ time < MaxTime
    /\ time' = time + 1
    /\ called' = {}
    /\ last' = NoCall
    /\ UNCHANGED <<start_time, start_value, to_global, prev, eng>>

\* The application calls animate(ui, id, value, animation, add_contents)
\* for one of `ids` with one of `animations`: once per id and frame, the
\* clock readings of an id's calls strictly increasing.
AnimateFor(ids, animations) ==
    \E id \in ids \ called, value \in Values, animation \in animations :
        LET ui == animate(Ui, id, value, animation)
        IN /\ called' = called \cup {id}
           /\ start_time' = ui.start_time
           /\ start_value' = ui.start_value
           /\ to_global' = ui.to_global
           /\ prev' = [prev EXCEPT ![id] = [path |-> Path(ui), value |-> value]]
           /\ last' = Call("animate", id, value, animation, ui, Path(ui),
                           RunStateNone)
           /\ UNCHANGED <<time, eng>>

\* The application calls run_state(ui, id, animation).
RunStateFor(ids, animations) ==
    \E id \in ids, animation \in animations :
        LET r == run_state(Ui, id, animation)
        IN /\ start_time' = r.ui.start_time
           /\ start_value' = r.ui.start_value
           /\ to_global' = r.ui.to_global
           /\ last' = Call("run_state", id, 0, animation, r.ui, "none", r.ret)
           /\ UNCHANGED <<time, prev, called, eng>>

\* Spec: one animation instance, "x", driven frame by frame with any value
\* and any definition on every call.  Entries are keyed by id, so the
\* other id's entries stay as they are.
Callers == {"x"}

\* The definitions the application passes: each segment instantaneous or
\* MaxDur ticks long, both effects of one kind (Animation::new_in, new_out,
\* new and EMPTY with the examples' fade and slide effects).
Animations ==
    {a \in Animation :
        /\ a.out_seg.duration \in {0, MaxDur}
        /\ a.in_seg.duration \in {0, MaxDur}
        /\ a.out_seg.anim_fn = a.in_seg.anim_fn}

AnimateCall == AnimateFor(Callers, Animations)

RunStateCall == RunStateFor(Callers, Animations)

Next == NewFrame \/ AnimateCall \/ RunStateCall

Spec == Init /\ [][Next]_vars


\* ------------------------------------------- the timing engine alone
\* EngineSpec: AnimationState::run_state as a function of its inputs.  The
\* start time, the first clock reading and the definition are drawn from
\* the bounded sets (clock readings before the start time included); each
\* step evaluates the same start time and definition at another reading.
EngineTimes == 0..EngMaxTime

EngineAnimation ==
    [out_seg : [duration : 0..EngMaxDur, anim_fn : {"fade"}],
     in_seg : [duration : 0..EngMaxDur, anim_fn : {"fade"}]]

Engine(start, current, animation, prev_time, prev_rs) ==
    [start_time |-> start, current_time |-> current, animation |-> animation,
     prev_time |-> prev_time, prev_rs |-> prev_rs,
     rs |-> AnimationState_run_state(
                AnimationState_new(start, current, animation))]

EngineInit ==
    /\ time = 0
    /\ start_time = [i \in Ids |-> NoneOpt]
    /\ start_value = [i \in Ids |-> NoneOpt]
    /\ to_global = [i \in Ids |-> FALSE]
    /\ prev = [i \in Ids |-> [path |-> "fresh", value |-> 0]]
    /\ called = {}
    /\ last = NoCall
    /\ \E s \in EngineTimes, c \in EngineTimes, a \in EngineAnimation :
           eng = Engine(s, c, a, c, AnimationState_run_state(
                                        AnimationState_new(s, c, a)))

EngineEval ==
    /\ \E c \in EngineTimes :
           eng' = Engine(eng.start_time, c, eng.animation, eng.current_time,
                         eng.rs)
    /\ UNCHANGED <<time, start_time, start_value, to_global, prev, called, last>>

EngineNext == EngineEval

EngineSpec == EngineInit /\ [][EngineNext]_vars

\* ----------------------------------------------------------- claims
\* A normal <<n, d>> is the quotient e / dur.
IsQuotient(normal, e, dur) == normal[1] * dur = e * normal[2]

\* C1: phase selection.  With outElapsed = max(0, currentTime - startTime)
\* and inElapsed = max(0, currentTime - (startTime + outDur)), run_state
\* returns OutSeg(outElapsed / outDur) when outElapsed < outDur, otherwise
\* InSeg(inElapsed / inDur) when inElapsed < inDur, otherwise None.
C1_PhaseSelection ==
    LET outDur == eng.animation.out_seg.duration
        inDur == eng.animation.in_seg.duration
        diff == eng.current_time - eng.start_time
        outElapsed == IF diff > 0 THEN diff ELSE 0
        inElapsed == IF diff - outDur > 0 THEN diff - outDur ELSE 0
    IN IF outElapsed < outDur
       THEN /\ eng.rs.tag = "OutSeg"
            /\ IsQuotient(eng.rs.normal, outElapsed, outDur)
       ELSE IF inElapsed < inDur
            THEN /\ eng.rs.tag = "InSeg"
                 /\ IsQuotient(eng.rs.normal, inElapsed, inDur)
            ELSE eng.rs = RunStateNone

\* C1 witness: the engine, evaluated again later, has moved from the out
\* segment to the middle of the in segment.
C1_Witness ==
    /\ eng.prev_rs.tag = "OutSeg"
    /\ eng.rs = InSeg(<<1, 2>>)
    /\ eng.current_time > eng.prev_time

Rank(rs) == CASE rs.tag = "OutSeg" -> 0 [] rs.tag = "InSeg" -> 1 [] OTHER -> 2

\* C10: for a fixed start time and definition the phase never regresses in
\* the order OutSeg -> InSeg -> None as the clock reading grows; once None,
\* None at every larger reading.
C10_PhaseMonotone ==
    eng.current_time >= eng.prev_time => Rank(eng.rs) >= Rank(eng.prev_rs)

\* C10 witness: None at one reading and None again at a larger one, for a
\* definition with both segments of positive duration.
C10_Witness ==
    /\ eng.prev_rs = RunStateNone
    /\ eng.rs = RunStateNone
    /\ eng.current_time > eng.prev_time
    /\ eng.animation.out_seg.duration > 0
    /\ eng.animation.in_seg.duration > 0


\* ----------------------------------------- claims on the controller
\* The latest call is an animate call; its AnimationState and run state
\* (only where one was built).
IsAnimate == last.op = "animate"

LastState == last.anim_state[1]

LastRunState == AnimationState_run_state(LastState)

EvNames == [i \in 1..Len(last.events) |-> last.events[i].ev]

Cleared(id) ==
    /\ start_time[id] = NoneOpt
    /\ start_value[id] = NoneOpt
    /\ ~to_global[id]

\* C2: no stale session is resumed.  When an animate call finds the stored
\* value different from the current value and the preceding animate call
\* for the id found them equal (the animation was at rest), the start time
\* it evaluates the timing engine with is its own clock reading.
C2_NoStaleSession ==
    (IsAnimate /\ last.path # "fast" /\ last.prev.path = "fast")
        => LastState.start_time = last.time

\* C3: on the animate call whose run state is None the start value, the
\* start time and the layer transform are removed before the content runs,
\* none of the three is left when the call returns, and the content is
\* called with the current value under no effect.
C3_FullCycleCleansUp ==
    (IsAnimate /\ last.path = "None")
        => /\ Cleared(last.id)
           /\ Len(last.events) = 4
           /\ {EvNames[i] : i \in 1..3} =
                  {"clear_start_value", "clear_start_time",
                   "clear_animation_layer"}
           /\ last.events[4] = Event("content", "none", <<0, 1>>, last.value)

\* C3 witness: a session that was in its in segment, with a layer transform
\* left by a slide effect, reaches None.
C3_Witness ==
    /\ IsAnimate
    /\ last.path = "None"
    /\ last.prev.path = "InSeg"
    /\ last.pre_layer
    /\ last.pre_time # NoneOpt

\* C4: after the call that cleaned a session up, the next animate call with
\* a value other than the one that call showed creates a new session whose
\* start time is its clock reading.
C4_NextChangeAnimated ==
    (IsAnimate /\ last.prev.path = "None" /\ last.value # last.prev.value)
        => /\ last.anim_state # NoneOpt
           /\ LastState.start_time = last.time
           /\ start_time[last.id] = Some(last.time)

\* C5: an animate call that finds the stored value equal to the current
\* value calls the content directly with it, applies no effect, leaves the
\* store as it was and creates no start time.
C5_FastPath ==
    (IsAnimate /\ last.pre_value = Some(last.value))
        => /\ last.events = <<Event("content", "none", <<0, 1>>, last.value)>>
           /\ last.anim_state = NoneOpt
           /\ start_time[last.id] = last.pre_time
           /\ start_value[last.id] = last.pre_value
           /\ to_global[last.id] = last.pre_layer
           /\ last.others_same

\* C5 witness: a fast-path call on an established baseline with no session.
C5_Witness ==
    /\ IsAnimate
    /\ last.pre_value = Some(last.value)
    /\ last.pre_time = NoneOpt
    /\ last.prev.path = "fast"
    /\ last.value = 1

Fresh == last.pre_time = NoneOpt /\ last.pre_value = NoneOpt /\ ~last.pre_layer

\* C6 as stated: the first animate call for a fresh id calls the content
\* directly and creates no store entry for the id.
C6_FreshCallCreatesNothing ==
    (IsAnimate /\ Fresh)
        => /\ last.events = <<Event("content", "none", <<0, 1>>, last.value)>>
           /\ Cleared(last.id)

\* C6 amended: the first animate call for a fresh id calls the content
\* directly and creates no start time and no layer transform; the one entry
\* it creates is the start value, holding the current value.
C6_FreshCallCreatesBaselineOnly ==
    (IsAnimate /\ Fresh)
        => /\ last.events = <<Event("content", "none", <<0, 1>>, last.value)>>
           /\ start_time[last.id] = NoneOpt
           /\ ~to_global[last.id]
           /\ start_value[last.id] # NoneOpt

\* C6 witness: the very first call for the id.
C6_Witness ==
    /\ IsAnimate
    /\ Fresh
    /\ last.prev.path = "fresh"

\* C7: with no stored value, animate stores the current value, default or
\* not, and runs no animation; a session is created only by a call that
\* finds a stored value different from its own.
C7_FirstCallBaseline ==
    IsAnimate
        => /\ last.pre_value = NoneOpt
               => /\ start_value[last.id] = Some(last.value)
                  /\ last.path = "fast"
                  /\ start_time[last.id] = last.pre_time
           /\ (last.pre_time = NoneOpt /\ start_time[last.id] # NoneOpt)
               => /\ last.pre_value # NoneOpt
                  /\ last.pre_value # Some(last.value)

\* C7 witness: a session is created against a baseline that an earlier
\* first call set to a value other than the default.
C7_Witness ==
    /\ IsAnimate
    /\ last.pre_time = NoneOpt
    /\ start_time[last.id] = Some(last.time)
    /\ last.pre_value = Some(2)
    /\ last.prev.path = "fast"

\* C8: on an animate call whose run state is OutSeg(normal) the out effect
\* is invoked at that normal and the content is called inside its scope
\* with the stored start value, not the current value.
C8_OutShowsOldValue ==
    (IsAnimate /\ last.path = "OutSeg")
        => /\ last.events =
                  <<Event("effect", "out", LastRunState.normal, 0),
                    Event("content", "out", <<0, 1>>, last.pre_value[1])>>
           /\ IsQuotient(last.events[1].normal,
                         last.time - LastState.start_time,
                         last.animation.out_seg.duration)
           /\ last.pre_value[1] # last.value

\* C8 witness: half way through the out segment, the value having changed
\* again since the call before.
C8_Witness ==
    /\ IsAnimate
    /\ last.path = "OutSeg"
    /\ LastRunState.normal = <<1, 2>>
    /\ last.prev.path = "OutSeg"
    /\ last.value # last.prev.value

\* C9: on an animate call whose run state is InSeg(normal) the layer
\* transform of the id is removed first, then the in effect is invoked at
\* that normal, then the content is called inside its scope with the
\* current value of the call.
C9_InShowsNewValue ==
    (IsAnimate /\ last.path = "InSeg")
        => /\ last.events =
                  <<Event("clear_animation_layer", "none", <<0, 1>>, 0),
                    Event("effect", "in", LastRunState.normal, 0),
                    Event("content", "in", <<0, 1>>, last.value)>>
           /\ IsQuotient(last.events[2].normal,
                         last.time - LastState.start_time
                             - last.animation.out_seg.duration,
                         last.animation.in_seg.duration)
           /\ to_global[last.id] = (last.animation.in_seg.anim_fn = "slide")

\* C9 witness: half way through the in segment, a transform left on the
\* layer by the out segment, the value other than the one of the call
\* before.
C9_Witness ==
    /\ IsAnimate
    /\ last.path = "InSeg"
    /\ LastRunState.normal = <<1, 2>>
    /\ last.pre_layer
    /\ last.prev.path = "OutSeg"
    /\ last.value # last.prev.value


\* ------------------------------------------- claims C16 to C19
InRange(normal) == 0 <= normal[1] /\ normal[1] < normal[2]

\* C16: the normal carried by OutSeg or InSeg and passed to an effect is at
\* least 0 and below 1, in every call.
C16_ProgressRange ==
    /\ \A i \in 1..Len(last.events) :
           last.events[i].ev = "effect" => InRange(last.events[i].normal)
    /\ (IsAnimate /\ last.anim_state # NoneOpt /\ is_running(LastRunState))
           => InRange(LastRunState.normal)
    /\ is_running(last.ret) => InRange(last.ret.normal)

\* C16 witness: a slide-out effect invoked half way through its segment.
C16_Witness ==
    /\ IsAnimate
    /\ last.path = "OutSeg"
    /\ last.events[1].normal = <<1, 2>>
    /\ last.animation.out_seg.anim_fn = "slide"

EngOutDur == eng.animation.out_seg.duration

EngInDur == eng.animation.in_seg.duration

\* C17 as stated: for every clock reading before the start time, whatever
\* the durations, the result is OutSeg(0.0).
C17_ClampAlwaysOut ==
    eng.current_time < eng.start_time => eng.rs = OutSeg(<<0, 1>>)

\* C17 amended: for a clock reading before the start time the progress is
\* never negative; the result is OutSeg(0.0) when outDur > 0, InSeg(0.0)
\* when outDur = 0 and inDur > 0, and None when both are 0.
C17_ClampByDuration ==
    eng.current_time < eng.start_time
        => /\ eng.rs.normal[1] >= 0
           /\ EngOutDur > 0 => eng.rs = OutSeg(<<0, 1>>)
           /\ (EngOutDur = 0 /\ EngInDur > 0) => eng.rs = InSeg(<<0, 1>>)
           /\ (EngOutDur = 0 /\ EngInDur = 0) => eng.rs = RunStateNone

\* C17 witness: the engine evaluated again at a reading before the start
\* time, for a definition with an out segment.
C17_Witness ==
    /\ eng.current_time < eng.start_time
    /\ eng.prev_time > eng.start_time
    /\ EngOutDur > 0
    /\ eng.rs = OutSeg(<<0, 1>>)

\* C18: with outDur > 0 and inDur > 0 the engine yields OutSeg(0.0) at t0,
\* OutSeg(0.5) at t0 + outDur/2, InSeg(0.0) at exactly t0 + outDur and
\* InSeg(0.5) at t0 + outDur + inDur/2.
C18_SegmentBoundaries ==
    LET d == eng.current_time - eng.start_time
    IN (EngOutDur > 0 /\ EngInDur > 0)
        => /\ d = 0 => eng.rs = OutSeg(<<0, 1>>)
           /\ 2 * d = EngOutDur => eng.rs = OutSeg(<<1, 2>>)
           /\ d = EngOutDur => eng.rs = InSeg(<<0, 1>>)
           /\ 2 * (d - EngOutDur) = EngInDur => eng.rs = InSeg(<<1, 2>>)

\* C18 witness: from the middle of a 4-tick out segment to the middle of a
\* 2-tick in segment.
C18_Witness ==
    /\ EngOutDur = 4
    /\ EngInDur = 2
    /\ eng.prev_rs = OutSeg(<<1, 2>>)
    /\ eng.rs = InSeg(<<1, 2>>)

\* C19: a segment of duration 0 is never the active phase and no normal is
\* computed by a division by zero; with outDur = 0 and inDur > 0 the engine
\* evaluated at the start time returns InSeg(0.0).
C19_ZeroDurationSkipped ==
    /\ eng.rs.tag = "OutSeg" => EngOutDur > 0
    /\ eng.rs.tag = "InSeg" => EngInDur > 0
    /\ eng.rs.normal[2] # 0
    /\ (EngOutDur = 0 /\ EngInDur > 0 /\ eng.current_time = eng.start_time)
           => eng.rs = InSeg(<<0, 1>>)

\* C19 witness: a definition with no out segment, evaluated again at its
\* start time.
C19_Witness ==
    /\ EngOutDur = 0
    /\ EngInDur > 0
    /\ eng.current_time = eng.start_time
    /\ eng.prev_time # eng.current_time
    /\ eng.rs = InSeg(<<0, 1>>)


\* ------------------------------------ claims C12 to C15 and C20
Running == {"OutSeg", "InSeg"}

\* C12: a value that changes again, to a value other than the stored start
\* value, while the session is in OutSeg or InSeg leaves the stored start
\* time as it is, and the run state is the one of the original start time.
C12_MidFlightKeepsStart ==
    (/\ IsAnimate
     /\ last.pre_time # NoneOpt
     /\ last.prev.path \in Running
     /\ last.path \in Running
     /\ last.value # last.prev.value)
        => /\ start_time[last.id] = last.pre_time
           /\ LastState.start_time = last.pre_time[1]
           /\ LET d == last.time - last.pre_time[1]
                  od == last.animation.out_seg.duration
              IN \E i \in 1..Len(last.events) :
                    /\ last.events[i].ev = "effect"
                    /\ IF last.path = "OutSeg"
                       THEN IsQuotient(last.events[i].normal, d, od)
                       ELSE IsQuotient(last.events[i].normal, d - od,
                                       last.animation.in_seg.duration)

\* C12 witness: the value changes from 1 to 2 (stored start value 0) while
\* the session, begun in an earlier frame, is in its out segment.
C12_Witness ==
    /\ IsAnimate
    /\ last.pre_value = Some(0)
    /\ last.prev = [path |-> "OutSeg", value |-> 1]
    /\ last.value = 2
    /\ last.path = "OutSeg"
    /\ last.pre_time # NoneOpt
    /\ last.pre_time # Some(last.time)

\* C13: per id there is at most one start time and one start value, and
\* from the call that creates a session until the call that deletes it the
\* stored start value (and start time) never changes, whatever values are
\* passed in between.
C13_SessionInvariant ==
    /\ \A i \in Ids : Len(start_time[i]) <= 1 /\ Len(start_value[i]) <= 1
    /\ (last.op # "none" /\ start_time[last.id] # NoneOpt)
           => /\ last.pre_value # NoneOpt
              /\ start_value[last.id] = last.pre_value
              /\ last.pre_time # NoneOpt => start_time[last.id] = last.pre_time

\* C13 witness: the session lives on in its in segment while a third value
\* is passed.
C13_Witness ==
    /\ IsAnimate
    /\ last.path = "InSeg"
    /\ last.prev.path = "OutSeg"
    /\ start_value[last.id] = Some(1)
    /\ last.prev.value = 0
    /\ last.value = 2

\* C14: run_state returns None when no start time is stored for the id,
\* otherwise the timing engine's result for the stored start time, the
\* clock and the definition; it changes no entry and creates none.
C14_RunStateReadOnly ==
    last.op = "run_state"
        => /\ last.ret =
                  IF last.pre_time = NoneOpt THEN RunStateNone
                  ELSE AnimationState_run_state(
                           AnimationState_new(last.pre_time[1], last.time,
                                              last.animation))
           /\ start_time[last.id] = last.pre_time
           /\ start_value[last.id] = last.pre_value
           /\ to_global[last.id] = last.pre_layer
           /\ last.others_same
           /\ last.events = <<>>

\* C14 witness: the query finds a session half way through its in segment.
C14_Witness ==
    /\ last.op = "run_state"
    /\ last.pre_time # NoneOpt
    /\ last.ret = InSeg(<<1, 2>>)

\* C15: an animate call whose run state is OutSeg or InSeg requests a
\* repaint during the call.
C15_RepaintWhileRunning ==
    (IsAnimate /\ last.path \in Running) => last.repaint

\* C15 witness: a repaint requested by the call that starts a session.
C15_Witness ==
    /\ IsAnimate
    /\ last.path = "OutSeg"
    /\ last.pre_time = NoneOpt
    /\ last.repaint

\* C20: with both durations zero, the animate call that observes a changed
\* value and starts the session has run state None: no out or in effect is
\* invoked, the content receives the new value, and the entries of the
\* session are gone when the call returns.
C20_SnapTransition ==
    (/\ IsAnimate
     /\ last.anim_state # NoneOpt
     /\ last.pre_time = NoneOpt
     /\ last.animation.out_seg.duration = 0
     /\ last.animation.in_seg.duration = 0)
        => /\ last.path = "None"
           /\ LastState.start_time = last.time
           /\ \A i \in 1..Len(last.events) : last.events[i].ev # "effect"
           /\ last.events[Len(last.events)] =
                  Event("content", "none", <<0, 1>>, last.value)
           /\ Cleared(last.id)

\* C20 witness: a snap from the baseline 1 to the value 2.
C20_Witness ==
    /\ IsAnimate
    /\ last.pre_value = Some(1)
    /\ last.value = 2
    /\ last.pre_time = NoneOpt
    /\ last.animation.out_seg.duration = 0
    /\ last.animation.in_seg.duration = 0
    /\ last.path = "None"


\* --------------------------------------- every frame, one definition
\* FrameSpec: the application calls animate for "x" in every frame, always
\* with the same definition (a slide of MaxDur ticks out and 1 tick in) and
\* with any value; the clock advances only once the frame's call is made.
FixedAnimation ==
    [out_seg |-> [duration |-> MaxDur, anim_fn |-> "slide"],
     in_seg |-> [duration |-> 1, anim_fn |-> "slide"]]

FrameAnimate == AnimateFor(Callers, {FixedAnimation})

FrameNewFrame == Callers \subseteq called /\ NewFrame

FrameNext == FrameAnimate \/ FrameNewFrame

FrameSpec == Init /\ [][FrameNext]_vars

\* C11: every session terminates.  With animate called in every frame and
\* the definition fixed, a session whose end startTime + outDur + inDur the
\* clock has passed has been removed: after the call of the last frame of
\* the run no such start time is left in the store.
C11_SessionTerminates ==
    (IsAnimate /\ last.time = MaxTime /\ start_time[last.id] # NoneOpt)
        => last.time <= start_time[last.id][1]
                            + FixedAnimation.out_seg.duration
                            + FixedAnimation.in_seg.duration


\* ------------------------------------------ claims C25 and C28
EngState == AnimationState_new(eng.start_time, eng.current_time, eng.animation)

\* C25: the engine returns None exactly when the whole animation has
\* elapsed: None if and only if max(0, currentTime - startTime) >=
\* outDur + inDur, that is at and after in_end (and at every reading when
\* both durations are 0).
C25_NoneIffElapsed ==
    LET d == eng.current_time - eng.start_time
        elapsed == IF d > 0 THEN d ELSE 0
    IN /\ (eng.rs = RunStateNone) <=> (elapsed >= EngOutDur + EngInDur)
       /\ (eng.rs = RunStateNone)
              <=> (EngOutDur + EngInDur = 0
                      \/ eng.current_time >= in_end(EngState))

\* C25 witness: the last reading inside the in segment was running, the
\* reading at in_end is None, both segments of different positive length.
C25_Witness ==
    /\ EngOutDur > 0
    /\ EngInDur > EngOutDur
    /\ eng.prev_time = in_end(EngState) - 1
    /\ eng.prev_rs.tag = "InSeg"
    /\ eng.current_time = in_end(EngState)
    /\ eng.rs = RunStateNone

\* C28: the helpers alone.  For inDur > 0, in_elapsed is Some(0) at every
\* reading at or before the in start (the whole out phase and the readings
\* before startTime included), Some(currentTime - inStart) while that is
\* below inDur, and None at and after in_end.  out_elapsed is
\* Some(max(0, currentTime - startTime)) while that is below outDur and
\* None from out_end on.
C28_HelpersUngated ==
    LET c == eng.current_time
        inStart == eng.start_time + EngOutDur
        inEnd == inStart + EngInDur
        d == c - eng.start_time
    IN /\ EngInDur > 0 =>
            /\ c <= inStart => in_elapsed(EngState) = Some(0)
            /\ (c > inStart /\ c - inStart < EngInDur)
                   => in_elapsed(EngState) = Some(c - inStart)
            /\ c >= inEnd => in_elapsed(EngState) = NoneOpt
       /\ (IF d > 0 THEN d ELSE 0) < EngOutDur
              => out_elapsed(EngState) = Some(IF d > 0 THEN d ELSE 0)
       /\ c >= eng.start_time + EngOutDur => out_elapsed(EngState) = NoneOpt

\* C28 witness: in the middle of the out segment, where run_state answers
\* OutSeg, in_elapsed is Some(0); the reading before it was past out_end,
\* where out_elapsed is None.
C28_Witness ==
    /\ EngInDur > 0
    /\ eng.rs.tag = "OutSeg"
    /\ eng.current_time > eng.start_time
    /\ in_elapsed(EngState) = Some(0)
    /\ out_elapsed(EngState) = Some(eng.current_time - eng.start_time)
    /\ eng.prev_time >= eng.start_time + EngOutDur


\* ------------------------------------------------ two ids: claim C21
\* IsoSpec: two animation instances, "x" and "y", in one ui; animate and
\* run_state are called for either of them, in any order, in every frame,
\* with one definition, the values drawn from 0..IsoMaxValue and the clock
\* running up to IsoMaxTime.
IsoMaxTime == 4
IsoMaxValue == 1

IsoAnimate ==
    /\ AnimateFor(Ids, {FixedAnimation})
    /\ last'.value \in 0..IsoMaxValue

IsoRunState == RunStateFor(Ids, {FixedAnimation})

IsoNewFrame == time < IsoMaxTime /\ NewFrame

IsoNext == IsoNewFrame \/ IsoAnimate \/ IsoRunState

IsoSpec == Init /\ [][IsoNext]_vars

\* The memory the latest call found, with the entries of every other id
\* taken away.
OwnEntriesOnly ==
    [input_time |-> last.time,
     start_time |-> [i \in Ids |-> IF i = last.id THEN last.pre_time ELSE NoneOpt],
     start_value |-> [i \in Ids |-> IF i = last.id THEN last.pre_value ELSE NoneOpt],
     to_global |-> [i \in Ids |-> IF i = last.id THEN last.pre_layer ELSE FALSE],
     repaint |-> FALSE, anim_state |-> NoneOpt, events |-> <<>>]

\* C21: key isolation.  A call for id X leaves the start-time, start-value
\* and layer entries of every other id unchanged, and what it does and
\* leaves behind for X is what it would do had the other ids no entries
\* at all: it reads only X's entries.
C21_KeyIsolation ==
    /\ last.op # "none" => last.others_same
    /\ IsAnimate =>
          LET alone == animate(OwnEntriesOnly, last.id, last.value, last.animation)
          IN /\ alone.events = last.events
             /\ alone.anim_state = last.anim_state
             /\ alone.repaint = last.repaint
             /\ alone.start_time[last.id] = start_time[last.id]
             /\ alone.start_value[last.id] = start_value[last.id]
             /\ alone.to_global[last.id] = to_global[last.id]
    /\ last.op = "run_state" =>
          run_state(OwnEntriesOnly, last.id, last.animation).ret = last.ret

\* C21 witness: an animate call for "x" that ends x's session and clears
\* its entries, while "y" is in the middle of a session of its own with a
\* layer transform set.
C21_Witness ==
    /\ IsAnimate
    /\ last.id = "x"
    /\ last.path = "None"
    /\ last.pre_time # NoneOpt
    /\ last.pre_layer
    /\ start_time["x"] = NoneOpt
    /\ start_time["y"] # NoneOpt
    /\ start_value["y"] # NoneOpt
    /\ to_global["y"]


\* ---------------------------------------------------- claim C22
\* The ui of a second run that has reached the latest call with the same
\* memory contents and is given the same clock reading.
ReplayUi ==
    [input_time |-> last.time,
     start_time |-> [start_time EXCEPT ![last.id] = last.pre_time],
     start_value |-> [start_value EXCEPT ![last.id] = last.pre_value],
     to_global |-> [to_global EXCEPT ![last.id] = last.pre_layer],
     repaint |-> FALSE, anim_state |-> NoneOpt, events |-> <<>>]

RunStateBefore == run_state(ReplayUi, last.id, last.animation).ret

C24_NoLeftoverAtRest ==
    (IsAnimate /\ last.path = "fast")
        => (start_time[last.id] = NoneOpt /\ ~to_global[last.id])


\* ---------------------------------------------------- claim C26
\* The content callback's invocations in the latest call, in order.
ContentEvents == SelectSeq(last.events, LAMBDA e : e.ev = "content")

\* C26: every animate call, on each of its four paths (fast path, OutSeg,
\* InSeg, None), invokes the content callback exactly once; the value
\* passed is the stored start value in OutSeg and the call's current value
\* on every other path.
C26_ContentOnce ==
    IsAnimate =>
        /\ last.path \in {"fast", "OutSeg", "InSeg", "None"}
        /\ Len(ContentEvents) = 1
        /\ ContentEvents[1].value =
              IF last.path = "OutSeg" THEN last.pre_value[1] ELSE last.value

\* C26 witness: the call that ends a session: on the None path, after a
\* call in the out segment that showed the old value, the content is
\* rendered once, with the new value, after the cleanup.
C26_Witness ==
    /\ IsAnimate
    /\ last.path = "None"
    /\ last.prev.path = "OutSeg"
    /\ last.pre_value # Some(last.value)
    /\ Len(last.events) = 4
    /\ last.events[4] = Event("content", "none", <<0, 1>>, last.value)


\* ---------------------------------------------------- claim C27
\* C27: store consistency.  After every animate call, a start time entry
\* exists for an id only if a start value entry exists for it as well.
C27_StoreConsistent ==
    IsAnimate => \A i \in Ids : start_time[i] # NoneOpt => start_value[i] # NoneOpt

\* C27 witness: the call that creates a session: it found a start value and
\* no start time, and leaves both stored.
C27_Witness ==
    /\ IsAnimate
    /\ last.pre_time = NoneOpt
    /\ last.pre_value # NoneOpt
    /\ start_time[last.id] = Some(last.time)
    /\ start_value[last.id] = last.pre_value

=============================================================================
